---- MODULE Spec2Model ----
(***************************************************************************)
(* ZeitFund (src/zeit_fund/lib.rs): an ERC-20 style share ledger with a    *)
(* funding window, manager-issued dividends and per-account claim          *)
(* watermarks, paying out through the DividendWallet                       *)
(* (src/dividend_wallet/lib.rs).                                           *)
(*                                                                         *)
(* The contract storage is the record `self`; every message is one action  *)
(* that runs the whole handler.  The storage is modelled as the code       *)
(* leaves it, statement by statement: a message that returns Err after it  *)
(* wrote to storage leaves those writes in `self`.                         *)
(***************************************************************************)
EXTENDS Integers, Sequences, FiniteSets

\* ------------------------------------------------------------------ bounds
\* total_shares handed to the constructor
TotalShares == 2
\* the block timestamp runs from 1 to MaxTime
MaxTime == 3
\* at most MaxDividends events are issued
MaxDividends == 1
\* approve is handed values up to MaxAllowance
MaxAllowance == 1
\* the accrual specification: total_shares up to MaxSupply, dividend amounts
\* up to MaxAmount
MaxSupply == 4
MaxAmount == 4
MaxEvents == 2
WalletFunds == 6
MaxScan == 3

\* ------------------------------------------------------------- constants
\* AccountId::from([0; 32]): the reservoir the constructor gives the supply to
ZeroAccount == 0
\* the accounts that sign calls (nobody holds a key of the all-zero account)
Callers == {1, 2}
Accounts == {ZeroAccount} \cup Callers
\* the manager handed to the constructor
Manager == 1
\* amounts the manager issues as dividends
DividendAmounts == {TotalShares}
\* values handed to transfer and transfer_from and attached to fund
Values == 0 .. TotalShares
\* values handed to approve
AllowanceValues == 0 .. MaxAllowance
\* the accounts a caller approves
Spenders(owner) == IF owner = Manager THEN Callers \ {owner} ELSE {}
\* the accounts a caller pulls from with transfer_from: those that approve it
Owners(spender) == {o \in Callers : spender \in Spenders(o)}
\* let buffer = 1_000_000_000_000, as two limbs of LimbBase each
LimbBase == 1000000

VARIABLES
    self,             \* the ZeitFund storage struct
    block_timestamp,  \* self.env().block_timestamp()
    last,             \* the last message: name, caller, result, amount distributed, receiver
    distributed       \* total of the amounts handed to dividend_wallet.distribute so far

vars == <<self, block_timestamp, last, distributed>>

\* ---------------------------------------------------------------- helpers
RECURSIVE SumAmounts(_, _)
\* sum of dividends[i].amount for i in from..Len
SumAmounts(divs, from) ==
    IF from > Len(divs) THEN 0 ELSE divs[from].amount + SumAmounts(divs, from + 1)

RECURSIVE SumBalances(_, _)
SumBalances(bal, accts) ==
    IF accts = {} THEN 0
    ELSE LET a == CHOOSE x \in accts : TRUE
         IN bal[a] + SumBalances(bal, accts \ {a})

RECURSIVE SumCalls(_)
SumCalls(calls) ==
    IF calls = <<>> THEN 0 ELSE Head(calls).amount + SumCalls(Tail(calls))

balance_of_impl(s, owner) == s.balances[owner]

allowance_impl(s, owner, spender) == s.allowances[<<owner, spender>>]

is_funded(s) == s.funding_amount = s.total_supply

\* ------------------------------------------------------------- dividends
\* a slip: an event issued at the watermark itself counts as unclaimed
oldest_unclaimed_dividend_inclusive(divs, last_block) ==
    LET hits == {i \in 1 .. Len(divs) : divs[i].issued_at >= last_block}
    IN IF hits = {} THEN Len(divs) + 1
       ELSE CHOOSE i \in hits : \A j \in hits : i <= j

\* for i in 0..len: the first index whose timestamp is above last_block,
\* Len+1 standing for u32::MAX (no such index)
\* a slip: the scan does not stop at the first hit and keeps the last one
oldest_unclaimed_dividend_no_break(divs, last_block) ==
    LET hits == {i \in 1 .. Len(divs) : divs[i].issued_at > last_block}
    IN IF hits = {} THEN Len(divs) + 1
       ELSE CHOOSE i \in hits : \A j \in hits : i >= j

oldest_unclaimed_dividend(divs, last_block) ==
    LET hits == {i \in 1 .. Len(divs) : divs[i].issued_at > last_block}
    IN IF hits = {} THEN Len(divs) + 1
       ELSE CHOOSE i \in hits : \A j \in hits : i <= j

\* (user_balance * buffer) / total_supply, as the limbs <<q2, q1, q0>> of
\* q2 * buffer + q1 * LimbBase + q0 (long division, exact)
percentage(user_balance, total_supply) ==
    LET q2 == user_balance \div total_supply
        r2 == user_balance % total_supply
        q1 == (r2 * LimbBase) \div total_supply
        r1 == (r2 * LimbBase) % total_supply
        q0 == (r1 * LimbBase) \div total_supply
    IN <<q2, q1, q0>>

\* (sum * percentage) / buffer on the limbs of percentage (exact)
scale(sum, pct) ==
    sum * pct[1] + ((sum * pct[2] + ((sum * pct[3]) \div LimbBase)) \div LimbBase)

\* a slip: the share is rounded once, sum * user_balance / total_supply
calc_dividend_round_once(s, user) ==
    LET last_block == s.last_claimed_dividend[user]
        user_balance == balance_of_impl(s, user)
        oldest == oldest_unclaimed_dividend(s.dividends, last_block)
    IN IF user_balance = 0 THEN 0
       ELSE IF oldest > Len(s.dividends) THEN 0
       ELSE (SumAmounts(s.dividends, oldest) * user_balance) \div s.total_supply

calc_dividend(s, user) ==
    LET last_block == s.last_claimed_dividend[user]
        user_balance == balance_of_impl(s, user)
        oldest == oldest_unclaimed_dividend(s.dividends, last_block)
    IN IF user_balance = 0 THEN 0
       ELSE IF oldest > Len(s.dividends) THEN 0
       ELSE scale(SumAmounts(s.dividends, oldest),
                  percentage(user_balance, s.total_supply))

\* DividendWallet::distribute as the fund sees it: the runtime transfer
\* succeeds or fails
distribute(runtime_ok) == runtime_ok

\* a slip: the watermark is not written
claim_dividend_no_watermark(s, caller, now, runtime_ok) ==
    LET dividend == calc_dividend(s, caller)
    IN IF dividend > 0
       THEN [s |-> s,
             res |-> IF distribute(runtime_ok) THEN "Ok" ELSE "DividendDistributionError",
             ret |-> dividend,
             calls |-> <<[dest |-> caller, amount |-> dividend, ok |-> distribute(runtime_ok)]>>]
       ELSE [s |-> s, res |-> "Ok", ret |-> 0, calls |-> <<>>]

\* a slip: the watermark is still unwritten when distribute is called
write_watermark_late(s, caller, now) == s

\* a slip: the settlement stamps every account
write_watermark_all(s, caller, now) ==
    [s EXCEPT !.last_claimed_dividend = [a \in Accounts |-> now]]

\* the storage claim_dividend has written when it calls distribute, which
\* is what a call re-entering during distribute reads
write_watermark(s, caller, now) == [s EXCEPT !.last_claimed_dividend[caller] = now]

\* a slip: a zero dividend returns before the watermark is written
claim_dividend_skip_zero(s, caller, now, runtime_ok) ==
    LET dividend == calc_dividend(s, caller)
        s1 == write_watermark(s, caller, now)
    IN IF dividend > 0
       THEN [s |-> s1,
             res |-> IF distribute(runtime_ok) THEN "Ok" ELSE "DividendDistributionError",
             ret |-> dividend,
             calls |-> <<[dest |-> caller, amount |-> dividend, ok |-> distribute(runtime_ok)]>>]
       ELSE [s |-> s, res |-> "Ok", ret |-> 0, calls |-> <<>>]

\* claim_dividend(caller): the storage after it, its result, the dividend it
\* returns and the distribute calls it made
claim_dividend(s, caller, now, runtime_ok) ==
    LET dividend == calc_dividend(s, caller)
        s1 == write_watermark(s, caller, now)
    IN IF dividend > 0
       THEN [s |-> s1,
             res |-> IF distribute(runtime_ok) THEN "Ok" ELSE "DividendDistributionError",
             ret |-> dividend,
             calls |-> <<[dest |-> caller, amount |-> dividend, ok |-> distribute(runtime_ok)]>>]
       ELSE [s |-> s1, res |-> "Ok", ret |-> 0, calls |-> <<>>]

\* -------------------------------------------------------------- ledger
\* a slip: to's balance is read before from's is written
move_balances_stale(s, from, to, value) ==
    [s EXCEPT !.balances = [a \in Accounts |->
        IF a = to THEN s.balances[to] + value
        ELSE IF a = from THEN s.balances[from] - value
        ELSE s.balances[a]]]

\* a slip: the destination is credited first and the source is then
\* written from the balance read at the start
move_balances_credit_first(s, from, to, value) ==
    LET s1 == [s EXCEPT !.balances[to] = balance_of_impl(s, to) + value]
    IN [s1 EXCEPT !.balances[from] = balance_of_impl(s, from) - value]

\* self.balances.insert(from, ..); let to_balance = ..; self.balances.insert(to, ..)
move_balances(s, from, to, value) ==
    LET s1 == [s EXCEPT !.balances[from] = balance_of_impl(s, from) - value]
    IN [s1 EXCEPT !.balances[to] = balance_of_impl(s1, to) + value]

\* a slip: only the source is settled
transfer_from_to_no_to_claim(s, from, to, value, now, ok1, ok2) ==
    IF balance_of_impl(s, from) < value
    THEN [s |-> s, res |-> "InsufficientBalance", calls |-> <<>>]
    ELSE IF from = s.manager /\ s.lock_manager_shares
    THEN [s |-> s, res |-> "ManagerSharesAreLocked", calls |-> <<>>]
    ELSE LET c1 == claim_dividend(s, from, now, ok1)
         IN IF c1.res # "Ok"
            THEN [s |-> c1.s, res |-> c1.res, calls |-> c1.calls]
            ELSE [s |-> move_balances(c1.s, from, to, value),
                  res |-> "Ok", calls |-> c1.calls]

\* a slip: the balances move before the two accounts are settled
transfer_from_to_move_first(s, from, to, value, now, ok1, ok2) ==
    IF balance_of_impl(s, from) < value
    THEN [s |-> s, res |-> "InsufficientBalance", calls |-> <<>>]
    ELSE IF from = s.manager /\ s.lock_manager_shares
    THEN [s |-> s, res |-> "ManagerSharesAreLocked", calls |-> <<>>]
    ELSE LET m == move_balances(s, from, to, value)
             c1 == claim_dividend(m, from, now, ok1)
         IN IF c1.res # "Ok"
            THEN [s |-> c1.s, res |-> c1.res, calls |-> c1.calls]
            ELSE LET c2 == claim_dividend(c1.s, to, now, ok2)
                 IN [s |-> c2.s, res |-> c2.res, calls |-> c1.calls \o c2.calls]

\* a slip: the manager lock is not checked
transfer_from_to_no_lock(s, from, to, value, now, ok1, ok2) ==
    IF balance_of_impl(s, from) < value
    THEN [s |-> s, res |-> "InsufficientBalance", calls |-> <<>>]
    ELSE LET c1 == claim_dividend(s, from, now, ok1)
         IN IF c1.res # "Ok"
            THEN [s |-> c1.s, res |-> c1.res, calls |-> c1.calls]
            ELSE LET c2 == claim_dividend(c1.s, to, now, ok2)
                 IN IF c2.res # "Ok"
                    THEN [s |-> c2.s, res |-> c2.res, calls |-> c1.calls \o c2.calls]
                    ELSE [s |-> move_balances(c2.s, from, to, value),
                          res |-> "Ok", calls |-> c1.calls \o c2.calls]

\* a slip: the balance of the source is not checked
transfer_from_to_no_balance_check(s, from, to, value, now, ok1, ok2) ==
    IF from = s.manager /\ s.lock_manager_shares
    THEN [s |-> s, res |-> "ManagerSharesAreLocked", calls |-> <<>>]
    ELSE LET c1 == claim_dividend(s, from, now, ok1)
         IN IF c1.res # "Ok"
            THEN [s |-> c1.s, res |-> c1.res, calls |-> c1.calls]
            ELSE LET c2 == claim_dividend(c1.s, to, now, ok2)
                 IN IF c2.res # "Ok"
                    THEN [s |-> c2.s, res |-> c2.res, calls |-> c1.calls \o c2.calls]
                    ELSE [s |-> move_balances(c2.s, from, to, value),
                          res |-> "Ok", calls |-> c1.calls \o c2.calls]

\* a slip: the lock also stops moves into the manager's account
transfer_from_to_lock_inbound(s, from, to, value, now, ok1, ok2) ==
    IF balance_of_impl(s, from) < value
    THEN [s |-> s, res |-> "InsufficientBalance", calls |-> <<>>]
    ELSE IF (from = s.manager \/ to = s.manager) /\ s.lock_manager_shares
    THEN [s |-> s, res |-> "ManagerSharesAreLocked", calls |-> <<>>]
    ELSE LET c1 == claim_dividend(s, from, now, ok1)
         IN IF c1.res # "Ok"
            THEN [s |-> c1.s, res |-> c1.res, calls |-> c1.calls]
            ELSE LET c2 == claim_dividend(c1.s, to, now, ok2)
                 IN IF c2.res # "Ok"
                    THEN [s |-> c2.s, res |-> c2.res, calls |-> c1.calls \o c2.calls]
                    ELSE [s |-> move_balances(c2.s, from, to, value),
                          res |-> "Ok", calls |-> c1.calls \o c2.calls]

\* a slip: to is settled, but its dividend is sent to from
transfer_from_to_pays_from(s, from, to, value, now, ok1, ok2) ==
    IF balance_of_impl(s, from) < value
    THEN [s |-> s, res |-> "InsufficientBalance", calls |-> <<>>]
    ELSE IF from = s.manager /\ s.lock_manager_shares
    THEN [s |-> s, res |-> "ManagerSharesAreLocked", calls |-> <<>>]
    ELSE LET c1 == claim_dividend(s, from, now, ok1)
         IN IF c1.res # "Ok"
            THEN [s |-> c1.s, res |-> c1.res, calls |-> c1.calls]
            ELSE LET c2 == claim_dividend(c1.s, to, now, ok2)
                     sent == [i \in 1 .. Len(c2.calls) |-> [c2.calls[i] EXCEPT !.dest = from]]
                 IN IF c2.res # "Ok"
                    THEN [s |-> c2.s, res |-> c2.res, calls |-> c1.calls \o sent]
                    ELSE [s |-> move_balances(c2.s, from, to, value),
                          res |-> "Ok", calls |-> c1.calls \o sent]

\* a slip: the result of settling to is dropped
transfer_from_to_ignore_to(s, from, to, value, now, ok1, ok2) ==
    IF balance_of_impl(s, from) < value
    THEN [s |-> s, res |-> "InsufficientBalance", calls |-> <<>>]
    ELSE IF from = s.manager /\ s.lock_manager_shares
    THEN [s |-> s, res |-> "ManagerSharesAreLocked", calls |-> <<>>]
    ELSE LET c1 == claim_dividend(s, from, now, ok1)
         IN IF c1.res # "Ok"
            THEN [s |-> c1.s, res |-> c1.res, calls |-> c1.calls]
            ELSE LET c2 == claim_dividend(c1.s, to, now, ok2)
                 IN [s |-> move_balances(c2.s, from, to, value),
                     res |-> "Ok", calls |-> c1.calls \o c2.calls]

transfer_from_to(s, from, to, value, now, ok1, ok2) ==
    IF balance_of_impl(s, from) < value
    THEN [s |-> s, res |-> "InsufficientBalance", calls |-> <<>>]
    ELSE IF from = s.manager /\ s.lock_manager_shares
    THEN [s |-> s, res |-> "ManagerSharesAreLocked", calls |-> <<>>]
    ELSE LET c1 == claim_dividend(s, from, now, ok1)
         IN IF c1.res # "Ok"
            THEN [s |-> c1.s, res |-> c1.res, calls |-> c1.calls]
            ELSE LET c2 == claim_dividend(c1.s, to, now, ok2)
                 IN IF c2.res # "Ok"
                    THEN [s |-> c2.s, res |-> c2.res, calls |-> c1.calls \o c2.calls]
                    ELSE [s |-> move_balances(c2.s, from, to, value),
                          res |-> "Ok", calls |-> c1.calls \o c2.calls]

\* the record of a finished message: who called what, the result, the total
\* amount the call handed to dividend_wallet.distribute (for claim, the
\* dividend it returns), and the account, if any, the call moved shares to
MoveCall(op, caller, res, amount, to, value) ==
    [op |-> op, caller |-> caller, res |-> res, amount |-> amount,
     receiver |-> IF res = "Ok" /\ value > 0 THEN {to} ELSE {}]

Call(op, caller, res, amount) == MoveCall(op, caller, res, amount, ZeroAccount, 0)

\* the outcomes of the wallet's runtime transfer that a settlement of
\* `pending` can meet: none is drawn when distribute is not called
WalletOutcomes(pending) == IF pending > 0 THEN BOOLEAN ELSE {TRUE}

\* the outcomes of call_runtime that a gated call can meet: none is drawn
\* when a gate stops the call before it
RuntimeOutcomes(s, caller) ==
    IF caller = s.manager /\ s.funding_amount = s.total_supply THEN BOOLEAN ELSE {TRUE}

\* ------------------------------------------------------------------ Init
\* a slip: the total supply is given to the manager, not to the reservoir
no_instantiation_to_manager(manager, total_shares, lock_manager_shares) ==
    [manager |-> manager,
     total_supply |-> total_shares,
     balances |-> [a \in Accounts |-> IF a = manager THEN total_shares ELSE 0],
     allowances |-> [p \in Accounts \X Accounts |-> 0],
     funding_amount |-> 0,
     lock_manager_shares |-> lock_manager_shares,
     dividends |-> <<>>,
     last_claimed_dividend |-> [a \in Accounts |-> 0]]

no_instantiation(manager, total_shares, lock_manager_shares) ==
    [manager |-> manager,
     total_supply |-> total_shares,
     balances |-> [a \in Accounts |-> IF a = ZeroAccount THEN total_shares ELSE 0],
     allowances |-> [p \in Accounts \X Accounts |-> 0],
     funding_amount |-> 0,
     lock_manager_shares |-> lock_manager_shares,
     dividends |-> <<>>,
     last_claimed_dividend |-> [a \in Accounts |-> 0]]

Init ==
    /\ \E lock \in BOOLEAN : self = no_instantiation(Manager, TotalShares, lock)
    /\ block_timestamp = 1
    /\ last = Call("new", Manager, "Ok", 0)
    /\ distributed = 0


\* --------------------------------------------------------------- actions
transfer(caller, to, value, ok1, ok2) ==
    LET r == transfer_from_to(self, caller, to, value, block_timestamp, ok1, ok2)
    IN /\ self' = r.s
       /\ last' = MoveCall("transfer", caller, r.res, SumCalls(r.calls), to, value)
       /\ distributed' = distributed + SumCalls(r.calls)
       /\ UNCHANGED block_timestamp

\* a slip: the value is added to the allowance
approve_result_adds(s, caller, spender, value) ==
    [s |-> [s EXCEPT !.allowances[<<caller, spender>>] =
                        allowance_impl(s, caller, spender) + value],
     res |-> "Ok"]

\* approve(spender, value): the storage after it and its result
approve_result(s, caller, spender, value) ==
    [s |-> [s EXCEPT !.allowances[<<caller, spender>>] = value], res |-> "Ok"]

approve(caller, spender, value) ==
    /\ self' = approve_result(self, caller, spender, value).s
    /\ last' = Call("approve", caller, approve_result(self, caller, spender, value).res, 0)
    /\ UNCHANGED <<block_timestamp, distributed>>

\* a slip: the allowance is checked after the shares were moved
transfer_from_result_check_after(s, caller, from, to, value, now, ok1, ok2) ==
    LET allowance == allowance_impl(s, from, caller)
        r == transfer_from_to(s, from, to, value, now, ok1, ok2)
    IN IF r.res # "Ok" THEN r
       ELSE IF allowance < value THEN [r EXCEPT !.res = "InsufficientAllowance"]
       ELSE [r EXCEPT !.s.allowances[<<from, caller>>] = allowance - value]

\* a slip: the allowance is not compared with the value
transfer_from_result_no_allowance(s, caller, from, to, value, now, ok1, ok2) ==
    LET allowance == allowance_impl(s, from, caller)
        r == transfer_from_to(s, from, to, value, now, ok1, ok2)
    IN IF r.res # "Ok" THEN r
       ELSE [r EXCEPT !.s.allowances[<<from, caller>>] =
                          IF allowance < value THEN 0 ELSE allowance - value]

\* a slip: the spender's path does not go through the manager lock
transfer_from_result_unlocked(s, caller, from, to, value, now, ok1, ok2) ==
    LET allowance == allowance_impl(s, from, caller)
    IN IF allowance < value
       THEN [s |-> s, res |-> "InsufficientAllowance", calls |-> <<>>]
       ELSE LET r == transfer_from_to_no_lock(s, from, to, value, now, ok1, ok2)
            IN IF r.res # "Ok" THEN r
               ELSE [r EXCEPT !.s.allowances[<<from, caller>>] = allowance - value]

transfer_from_result(s, caller, from, to, value, now, ok1, ok2) ==
    LET allowance == allowance_impl(s, from, caller)
    IN IF allowance < value
       THEN [s |-> s, res |-> "InsufficientAllowance", calls |-> <<>>]
       ELSE LET r == transfer_from_to(s, from, to, value, now, ok1, ok2)
            IN IF r.res # "Ok" THEN r
               ELSE [r EXCEPT !.s.allowances[<<from, caller>>] = allowance - value]

transfer_from(caller, from, to, value, ok1, ok2) ==
    LET r == transfer_from_result(self, caller, from, to, value, block_timestamp, ok1, ok2)
    IN /\ self' = r.s
       /\ last' = MoveCall("transfer_from", caller, r.res, SumCalls(r.calls), to, value)
       /\ distributed' = distributed + SumCalls(r.calls)
       /\ UNCHANGED block_timestamp

\* a slip: the ceiling is checked after the shares were minted
fund_result_check_after(s, caller, v, now, ok1, ok2) ==
    LET r == transfer_from_to(s, ZeroAccount, caller, v, now, ok1, ok2)
    IN IF r.res # "Ok" THEN r
       ELSE IF v + s.funding_amount > s.total_supply
       THEN [r EXCEPT !.res = "FundingTooMuch"]
       ELSE [r EXCEPT !.s.funding_amount = r.s.funding_amount + v]

\* a slip: funding_amount is not increased
fund_result_no_count(s, caller, v, now, ok1, ok2) ==
    IF v + s.funding_amount > s.total_supply
    THEN [s |-> s, res |-> "FundingTooMuch", calls |-> <<>>]
    ELSE transfer_from_to(s, ZeroAccount, caller, v, now, ok1, ok2)

\* a slip: the ceiling check leaves out what was funded before
fund_result_no_sum(s, caller, v, now, ok1, ok2) ==
    IF v > s.total_supply
    THEN [s |-> s, res |-> "FundingTooMuch", calls |-> <<>>]
    ELSE LET r == transfer_from_to(s, ZeroAccount, caller, v, now, ok1, ok2)
         IN IF r.res # "Ok" THEN r
            ELSE [r EXCEPT !.s.funding_amount = r.s.funding_amount + v]

\* a slip: a funded fund refuses every fund()
fund_result_closed(s, caller, v, now, ok1, ok2) ==
    IF v + s.funding_amount > s.total_supply \/ is_funded(s)
    THEN [s |-> s, res |-> "FundingTooMuch", calls |-> <<>>]
    ELSE LET r == transfer_from_to(s, ZeroAccount, caller, v, now, ok1, ok2)
         IN IF r.res # "Ok" THEN r
            ELSE [r EXCEPT !.s.funding_amount = r.s.funding_amount + v]

fund_result(s, caller, v, now, ok1, ok2) ==
    IF v + s.funding_amount > s.total_supply
    THEN [s |-> s, res |-> "FundingTooMuch", calls |-> <<>>]
    ELSE LET r == transfer_from_to(s, ZeroAccount, caller, v, now, ok1, ok2)
         IN IF r.res # "Ok" THEN r
            ELSE [r EXCEPT !.s.funding_amount = r.s.funding_amount + v]

fund(caller, v, ok1, ok2) ==
    LET r == fund_result(self, caller, v, block_timestamp, ok1, ok2)
    IN /\ self' = r.s
       /\ last' = MoveCall("fund", caller, r.res, SumCalls(r.calls), caller, v)
       /\ distributed' = distributed + SumCalls(r.calls)
       /\ UNCHANGED block_timestamp

only_manager(s, caller) == IF caller # s.manager THEN "OnlyManagerAllowed" ELSE "Ok"

\* a slip: the funding gate lets every state through
must_be_funded_open(s) == "Ok"

must_be_funded(s) == IF ~is_funded(s) THEN "MustBeFunded" ELSE "Ok"

\* a slip: the funding gate is checked before the manager gate
gated_runtime_call_funded_first(s, caller, runtime_ok) ==
    IF must_be_funded(s) # "Ok" THEN must_be_funded(s)
    ELSE IF only_manager(s, caller) # "Ok" THEN only_manager(s, caller)
    ELSE IF ~runtime_ok THEN "CallRuntimeFailed"
    ELSE "Ok"

\* the number of call_runtime calls a gated message makes: none when a gate
\* returns before it
runtime_calls(s, caller) ==
    IF only_manager(s, caller) = "Ok" /\ must_be_funded(s) = "Ok" THEN 1 ELSE 0

\* only_manager()?; must_be_funded()?; call_runtime(..).map_err(..)?
gated_runtime_call(s, caller, runtime_ok) ==
    IF only_manager(s, caller) # "Ok" THEN only_manager(s, caller)
    ELSE IF must_be_funded(s) # "Ok" THEN must_be_funded(s)
    ELSE IF ~runtime_ok THEN "CallRuntimeFailed"
    ELSE "Ok"

\* a slip: the call settles the caller's watermark on its way
swap_call_marks(caller, runtime_ok) ==
    /\ last' = Call("swap_call", caller, gated_runtime_call(self, caller, runtime_ok), 0)
    /\ self' = write_watermark(self, caller, block_timestamp)
    /\ UNCHANGED <<block_timestamp, distributed>>

swap_call(caller, runtime_ok) ==
    /\ last' = Call("swap_call", caller, gated_runtime_call(self, caller, runtime_ok), 0)
    /\ UNCHANGED <<self, block_timestamp, distributed>>

prediction_market_call(caller, runtime_ok) ==
    /\ last' = Call("prediction_market_call", caller,
                    gated_runtime_call(self, caller, runtime_ok), 0)
    /\ UNCHANGED <<self, block_timestamp, distributed>>

\* a slip: the event is put at the front of the history
push_dividend_front(s, timestamp, amount) ==
    [s EXCEPT !.dividends = <<[issued_at |-> timestamp, amount |-> amount]>> \o s.dividends]

push_dividend(s, timestamp, amount) ==
    [s EXCEPT !.dividends = Append(s.dividends, [issued_at |-> timestamp, amount |-> amount])]

\* a slip: the event is recorded although the forwarding failed
issue_dividend_result_swallowed(s, caller, amount, now, runtime_ok) ==
    LET res == gated_runtime_call(s, caller, runtime_ok)
    IN [s |-> IF res \in {"Ok", "CallRuntimeFailed"} THEN push_dividend(s, now, amount) ELSE s,
        res |-> res]

\* issue_dividend(amount): the storage after it and its result
issue_dividend_result(s, caller, amount, now, runtime_ok) ==
    LET res == gated_runtime_call(s, caller, runtime_ok)
    IN [s |-> IF res = "Ok" THEN push_dividend(s, now, amount) ELSE s, res |-> res]

issue_dividend(caller, amount, runtime_ok) ==
    LET r == issue_dividend_result(self, caller, amount, block_timestamp, runtime_ok)
    IN /\ r.res = "Ok" => Len(self.dividends) < MaxDividends
       /\ self' = r.s
       /\ last' = Call("issue_dividend", caller, r.res, 0)
       /\ UNCHANGED <<block_timestamp, distributed>>

claim(caller, runtime_ok) ==
    LET r == claim_dividend(self, caller, block_timestamp, runtime_ok)
    IN /\ self' = r.s
       /\ last' = Call("claim", caller, r.res, SumCalls(r.calls))
       /\ distributed' = distributed + SumCalls(r.calls)
       /\ UNCHANGED block_timestamp

\* a later block: the timestamp moves on
next_block ==
    /\ block_timestamp < MaxTime
    /\ block_timestamp' = block_timestamp + 1
    /\ UNCHANGED <<self, last, distributed>>

Next ==
    \/ \E c \in Callers, to \in Accounts, v \in Values :
          \E ok1 \in WalletOutcomes(calc_dividend(self, c)),
             ok2 \in WalletOutcomes(calc_dividend(self, to)) :
             transfer(c, to, v, ok1, ok2)
    \/ \E c \in Callers : \E sp \in Spenders(c), v \in AllowanceValues : approve(c, sp, v)
    \/ \E c \in Callers, to \in Accounts, v \in Values : \E from \in Owners(c) :
          \E ok1 \in WalletOutcomes(calc_dividend(self, from)),
             ok2 \in WalletOutcomes(calc_dividend(self, to)) :
             transfer_from(c, from, to, v, ok1, ok2)
    \/ \E c \in Callers, v \in Values :
          \E ok1 \in WalletOutcomes(calc_dividend(self, ZeroAccount)),
             ok2 \in WalletOutcomes(calc_dividend(self, c)) :
             fund(c, v, ok1, ok2)
    \/ \E c \in Callers : \E ok \in RuntimeOutcomes(self, c) : swap_call(c, ok)
    \/ \E c \in Callers : \E ok \in RuntimeOutcomes(self, c) : prediction_market_call(c, ok)
    \/ \E c \in Callers, a \in DividendAmounts :
          \E ok \in RuntimeOutcomes(self, c) : issue_dividend(c, a, ok)
    \/ \E c \in Callers : \E ok \in WalletOutcomes(calc_dividend(self, c)) : claim(c, ok)
    \/ next_block

Spec == Init /\ [][Next]_vars

\* ------------------------------------------------- accrual specification
\* calc_dividend on funds of every total_shares up to MaxSupply: the fund is
\* constructed, funded by the callers in any split, dividends of any amount
\* up to MaxAmount are issued, and calc_dividend is queried
InitAccrual ==
    /\ \E total_shares \in 1 .. MaxSupply :
          self = no_instantiation(Manager, total_shares, FALSE)
    /\ block_timestamp = 1
    /\ last = Call("new", Manager, "Ok", 0)
    /\ distributed = 0

\* the message calc_dividend(user): read-only, returns the dividend
calc_dividend_call(caller, user) ==
    /\ last' = Call("calc_dividend", caller, "Ok", calc_dividend(self, user))
    /\ UNCHANGED <<self, block_timestamp, distributed>>

NextAccrual ==
    \/ \E c \in Callers, v \in 1 .. MaxSupply :
          \E ok1 \in WalletOutcomes(calc_dividend(self, ZeroAccount)),
             ok2 \in WalletOutcomes(calc_dividend(self, c)) :
             fund(c, v, ok1, ok2)
    \/ \E a \in 1 .. MaxAmount : \E ok \in RuntimeOutcomes(self, Manager) :
          issue_dividend(Manager, a, ok)
    \/ \E user \in Callers : calc_dividend_call(user, user)
    \/ next_block

SpecAccrual == InitAccrual /\ [][NextAccrual]_vars

\* ------------------------------------------------- history specification
\* every message on a fund of one share whose dividend history grows up to
\* MaxEvents events
InitHistory ==
    /\ self = no_instantiation(Manager, 1, FALSE)
    /\ block_timestamp = 1
    /\ last = Call("new", Manager, "Ok", 0)
    /\ distributed = 0

issue_dividend_history(caller, amount, runtime_ok) ==
    LET r == issue_dividend_result(self, caller, amount, block_timestamp, runtime_ok)
    IN /\ r.res = "Ok" => Len(self.dividends) < MaxEvents
       /\ self' = r.s
       /\ last' = Call("issue_dividend", caller, r.res, 0)
       /\ UNCHANGED <<block_timestamp, distributed>>

NextHistory ==
    \/ \E c \in Callers, to \in Accounts, v \in 0 .. 1 :
          \E ok1 \in WalletOutcomes(calc_dividend(self, c)),
             ok2 \in WalletOutcomes(calc_dividend(self, to)) :
             transfer(c, to, v, ok1, ok2)
    \/ \E c \in Callers : \E sp \in Spenders(c), v \in AllowanceValues : approve(c, sp, v)
    \/ \E c \in Callers, to \in Accounts, v \in 0 .. 1 : \E from \in Owners(c) :
          \E ok1 \in WalletOutcomes(calc_dividend(self, from)),
             ok2 \in WalletOutcomes(calc_dividend(self, to)) :
             transfer_from(c, from, to, v, ok1, ok2)
    \/ \E c \in Callers, v \in 0 .. 1 :
          \E ok1 \in WalletOutcomes(calc_dividend(self, ZeroAccount)),
             ok2 \in WalletOutcomes(calc_dividend(self, c)) :
             fund(c, v, ok1, ok2)
    \/ \E c \in Callers : \E ok \in RuntimeOutcomes(self, c) : swap_call(c, ok)
    \/ \E c \in Callers : \E ok \in RuntimeOutcomes(self, c) : prediction_market_call(c, ok)
    \/ \E c \in Callers, a \in DividendAmounts :
          \E ok \in RuntimeOutcomes(self, c) : issue_dividend_history(c, a, ok)
    \/ \E c \in Callers : \E ok \in WalletOutcomes(calc_dividend(self, c)) : claim(c, ok)
    \/ next_block

SpecHistory == InitHistory /\ [][NextHistory]_vars

\* ---------------------------------------------------- scan specification
\* calc_dividend on every history of up to MaxScan events with
\* non-decreasing timestamps and every watermark: the manager funded the
\* one share at time 1, the events were issued at their timestamps, the
\* manager last settled at the watermark, and the clock stands at MaxTime
Histories ==
    {h \in UNION {[1 .. n -> [issued_at : 1 .. MaxTime, amount : 1 .. 2]] : n \in 0 .. MaxScan} :
        \A i, j \in 1 .. Len(h) : i < j => h[i].issued_at <= h[j].issued_at}

InitScan ==
    /\ \E h \in Histories, w \in 1 .. MaxTime :
          self = [no_instantiation(Manager, 1, FALSE) EXCEPT
                     !.balances = [a \in Accounts |-> IF a = Manager THEN 1 ELSE 0],
                     !.funding_amount = 1,
                     !.dividends = h,
                     !.last_claimed_dividend =
                         [a \in Accounts |-> IF a = Manager THEN w
                                             ELSE IF a = ZeroAccount THEN 1 ELSE 0]]
    /\ block_timestamp = MaxTime
    /\ last = Call("new", Manager, "Ok", 0)
    /\ distributed = 0

NextScan == \E user \in Callers : calc_dividend_call(user, user)

SpecScan == InitScan /\ [][NextScan]_vars

\* -------------------------------------------------- wallet specification
\* The DividendWallet contract on its own: self is the wallet's storage,
\* distributed the currency it has transferred out of its WalletFunds, and
\* any account, the fund contract among them, calls it.
FundContract == 3

WalletCallers == Callers \cup {FundContract}

\* DividendWallet::new(): the caller becomes the registered fund
DividendWallet_new(caller) == [fund |-> caller]

\* a slip: the caller is not compared with the registered fund
DividendWallet_distribute_unchecked(w, caller, dest, amount, runtime_ok) ==
    [s |-> w, ret |-> runtime_ok,
     transfers |-> IF runtime_ok THEN <<[dest |-> dest, amount |-> amount]>> ELSE <<>>]

\* DividendWallet::distribute(dest, amount): the storage after it, the
\* boolean it returns and the runtime transfers that took effect
DividendWallet_distribute(w, caller, dest, amount, runtime_ok) ==
    IF caller # w.fund
    THEN [s |-> w, ret |-> FALSE, transfers |-> <<>>]
    ELSE [s |-> w, ret |-> runtime_ok,
          transfers |-> IF runtime_ok THEN <<[dest |-> dest, amount |-> amount]>> ELSE <<>>]

InitWallet ==
    /\ \E creator \in WalletCallers :
          /\ self = DividendWallet_new(creator)
          /\ last = Call("new", creator, "Ok", 0)
    /\ block_timestamp = 1
    /\ distributed = 0

wallet_distribute(caller, dest, amount, runtime_ok) ==
    LET r == DividendWallet_distribute(self, caller, dest, amount, runtime_ok)
    IN /\ distributed + SumCalls(r.transfers) <= WalletFunds
       /\ self' = r.s
       /\ last' = MoveCall("distribute", caller, IF r.ret THEN "true" ELSE "false",
                           SumCalls(r.transfers), dest, SumCalls(r.transfers))
       /\ distributed' = distributed + SumCalls(r.transfers)
       /\ UNCHANGED block_timestamp

\* the message fund(): read-only, returns the registered fund
wallet_fund(caller) ==
    /\ last' = Call("fund", caller, "Ok", self.fund)
    /\ UNCHANGED <<self, block_timestamp, distributed>>

NextWallet ==
    \/ \E c \in WalletCallers, dest \in Callers, a \in 1 .. WalletFunds, ok \in BOOLEAN :
          wallet_distribute(c, dest, a, ok)
    \/ \E c \in WalletCallers : wallet_fund(c)

SpecWallet == InitWallet /\ [][NextWallet]_vars

\* ================================================================ claims

\* the outcomes the wallet can meet when account a is settled in this state
Pays(a) == WalletOutcomes(calc_dividend(self, a))

\* C1. Conservation: in every reachable state the balances of all accounts,
\* the reservoir included, sum to total_supply.
C1_Conservation == SumBalances(self.balances, Accounts) = self.total_supply

\* a transfer back to the reservoir has succeeded after the fund was filled
C1_Witness ==
    /\ last.op = "transfer" /\ last.res = "Ok"
    /\ is_funded(self)
    /\ self.balances[ZeroAccount] > 0

\* C2. Funding ceiling: funding_amount never exceeds total_supply, and a
\* fund() whose value would overshoot fails with FundingTooMuch and leaves
\* the storage (funding_amount and every balance) as it was.
C2_FundingCeiling ==
    /\ self.funding_amount <= self.total_supply
    /\ \A c \in Callers, v \in Values : \A ok1 \in Pays(ZeroAccount), ok2 \in Pays(c) :
          v + self.funding_amount > self.total_supply =>
             LET r == fund_result(self, c, v, block_timestamp, ok1, ok2)
             IN /\ r.res = "FundingTooMuch"
                /\ r.s.funding_amount = self.funding_amount
                /\ r.s.balances = self.balances

\* an overshooting fund() was refused while the window was still open
C2_Witness ==
    /\ last.op = "fund" /\ last.res = "FundingTooMuch"
    /\ 0 < self.funding_amount /\ self.funding_amount < self.total_supply

\* C3 as stated: with the lock set, every transfer and transfer_from out of
\* the manager's account fails with ManagerSharesAreLocked, whatever the
\* amount and the destination.
C3_Original ==
    self.lock_manager_shares =>
       \A c \in Callers, to \in Accounts, v \in Values :
          \A ok1 \in Pays(self.manager), ok2 \in Pays(to) :
          /\ transfer_from_to(self, self.manager, to, v, block_timestamp, ok1, ok2).res
                = "ManagerSharesAreLocked"
          /\ transfer_from_result(self, c, self.manager, to, v, block_timestamp, ok1, ok2).res
                = "ManagerSharesAreLocked"

\* C3, amended. With the lock set, every transfer and transfer_from out of
\* the manager's account fails and leaves the storage as it was; the error
\* is InsufficientAllowance when the allowance is below the value (for
\* transfer_from), else InsufficientBalance when the manager's balance is
\* below the value, else ManagerSharesAreLocked.
C3_ManagerLock ==
    self.lock_manager_shares =>
       \A c \in Callers, to \in Accounts, v \in Values :
          \A ok1 \in Pays(self.manager), ok2 \in Pays(to) :
          LET t == transfer_from_to(self, self.manager, to, v, block_timestamp, ok1, ok2)
              f == transfer_from_result(self, c, self.manager, to, v, block_timestamp, ok1, ok2)
              locked == IF self.balances[self.manager] < v
                        THEN "InsufficientBalance" ELSE "ManagerSharesAreLocked"
          IN /\ t.res = locked
             /\ t.s = self
             /\ f.res = IF self.allowances[<<self.manager, c>>] < v
                        THEN "InsufficientAllowance" ELSE locked
             /\ f.s = self

\* a spender holding an allowance tried to pull shares the locked manager holds
C3_Witness ==
    /\ self.lock_manager_shares
    /\ last.op = "transfer_from" /\ last.res = "ManagerSharesAreLocked"
    /\ self.balances[self.manager] > 0
    /\ \E c \in Callers : self.allowances[<<self.manager, c>>] > 0

\* C4. No value created: the total handed to the wallet's distribute never
\* exceeds the total of the issued dividend events.
C4_NoValueCreated == distributed <= SumAmounts(self.dividends, 1)

\* a claim has been paid and every issued unit is now handed out
C4_Witness ==
    /\ last.op = "claim" /\ last.res = "Ok" /\ last.amount > 0
    /\ distributed = SumAmounts(self.dividends, 1)

\* ---------------------------------------------------------------------
\* what calc_dividend's scan leaves out: no event of the history is above
\* the account's watermark
Settled(s, a) ==
    oldest_unclaimed_dividend(s.dividends, s.last_claimed_dividend[a]) > Len(s.dividends)

\* the total of the events the scan of account a starts from
UnclaimedSum(s, a) ==
    SumAmounts(s.dividends, oldest_unclaimed_dividend(s.dividends, s.last_claimed_dividend[a]))

\* this step is a message (not only the clock moving) named op
IsCall(op) == block_timestamp' = block_timestamp /\ last'.op = op

\* C5 as stated: of two successive claim() calls of a holder, the first pays
\* a nonzero amount, the second returns exactly 0 and leaves the holder's
\* watermark unchanged.
C5_Original ==
    [][\A c \in Callers :
          ( /\ last.op = "claim" /\ last.caller = c /\ last.res = "Ok" /\ last.amount > 0
            /\ IsCall("claim") /\ last'.caller = c )
          => /\ last'.res = "Ok" /\ last'.amount = 0
             /\ self'.last_claimed_dividend[c] = self.last_claimed_dividend[c]]_vars

\* C5, amended. A claim() of a holder whose calc_dividend is nonzero hands
\* exactly that amount to the wallet and, when the wallet pays, returns it;
\* a claim() of the same holder that follows it directly returns exactly 0,
\* hands nothing to the wallet and sets the watermark to the current block
\* timestamp (so the watermark is unchanged only when both calls run at the
\* same timestamp).
C5_ClaimIdempotence ==
    [][\A c \in Callers :
          /\ (IsCall("claim") /\ last'.caller = c /\ calc_dividend(self, c) > 0)
             => /\ last'.amount = calc_dividend(self, c)
                /\ last'.res \in {"Ok", "DividendDistributionError"}
                /\ distributed' = distributed + last'.amount
          /\ ( /\ last.op = "claim" /\ last.caller = c /\ last.res = "Ok" /\ last.amount > 0
               /\ IsCall("claim") /\ last'.caller = c )
             => /\ last'.res = "Ok" /\ last'.amount = 0
                /\ distributed' = distributed
                /\ self'.last_claimed_dividend[c] = block_timestamp]_vars

\* a holder that was paid has claimed again in a later block and got 0
C5_Witness ==
    /\ last.op = "claim" /\ last.res = "Ok" /\ last.amount = 0
    /\ self.balances[last.caller] > 0
    /\ self.dividends # <<>> /\ distributed > 0
    /\ self.last_claimed_dividend[last.caller] > self.dividends[1].issued_at

\* C6 as stated: an event appended by issue_dividend is counted by
\* calc_dividend of every holder right after it is appended, whatever the
\* timestamps of the holder's last settlement and of the issuance.
C6_Original ==
    [][( /\ IsCall("issue_dividend") /\ last'.res = "Ok"
         /\ Len(self'.dividends) = Len(self.dividends) + 1 )
       => \A a \in Accounts :
             self.balances[a] > 0 =>
                oldest_unclaimed_dividend(self'.dividends, self'.last_claimed_dividend[a])
                   <= Len(self'.dividends)]_vars

\* a successful move r from `from` to `to` has settled both accounts on the
\* balances held before it
MoveSettles(r, from, to) ==
    r.res = "Ok" =>
       /\ r.s.last_claimed_dividend[from] = block_timestamp
       /\ r.s.last_claimed_dividend[to] = block_timestamp
       /\ calc_dividend(r.s, from) = 0 /\ calc_dividend(r.s, to) = 0
       /\ Settled(r.s, from) /\ Settled(r.s, to)
       /\ SumCalls(r.calls) = calc_dividend(self, from)
                              + (IF to = from THEN 0 ELSE calc_dividend(self, to))
       /\ \A i \in 1 .. Len(r.calls) : r.calls[i].dest \in {from, to}

\* C7. Dual settlement: every successful transfer, transfer_from and fund
\* pays both accounts what calc_dividend gives them on the balances before
\* the move, sets both watermarks to the current time, and leaves both with
\* calc_dividend 0 and no event of the history above their watermark, so
\* the destination is owed nothing of an event issued before the move.
C7_DualSettlement ==
    \A c \in Callers, v \in Values :
       /\ \A to \in Accounts : \A ok1 \in Pays(c), ok2 \in Pays(to) :
             MoveSettles(transfer_from_to(self, c, to, v, block_timestamp, ok1, ok2), c, to)
       /\ \A from \in Accounts \ {c}, to \in Accounts :
             \A ok1 \in Pays(from), ok2 \in Pays(to) :
                MoveSettles(transfer_from_result(self, c, from, to, v, block_timestamp,
                                                 ok1, ok2), from, to)
       /\ \A ok1 \in Pays(ZeroAccount), ok2 \in Pays(c) :
             MoveSettles(fund_result(self, c, v, block_timestamp, ok1, ok2), ZeroAccount, c)

\* a transfer that moved shares has paid a pending dividend on the way
C7_Witness ==
    /\ last.op = "transfer" /\ last.res = "Ok" /\ last.amount > 0
    /\ self.balances[last.caller] < self.total_supply
    /\ self.last_claimed_dividend[last.caller] = block_timestamp

\* an account has acquired shares in this step through transfer or transfer_from
Acquires(a) ==
    /\ last'.op \in {"transfer", "transfer_from"}
    /\ self'.balances[a] > self.balances[a]

\* C8 as stated: an account that acquires shares after a dividend event was
\* issued and before it claims is owed, after the transfer, a share of that
\* event computed from its new balance.
C8_Original ==
    [][\A a \in Accounts :
          (Acquires(a) /\ ~Settled(self, a))
          => calc_dividend(self', a)
                = scale(UnclaimedSum(self, a),
                        percentage(self'.balances[a], self.total_supply))]_vars

\* C8, amended. An account that acquires shares after a dividend event was
\* issued and before it claims is settled by the transfer itself on the
\* balance it held before: the call hands the wallet what calc_dividend gave
\* the two parties before the move, and afterwards the account's watermark
\* is the current time and calc_dividend on its new balance is 0, so its
\* next claim pays nothing of that event.
C8_AcquirerSettledAtOldBalance ==
    [][\A a \in Accounts :
          (Acquires(a) /\ ~Settled(self, a))
          => /\ last'.res = "Ok"
             /\ \E from \in Accounts \ {a} :
                   /\ self'.balances[from] < self.balances[from]
                   /\ last'.amount = calc_dividend(self, from) + calc_dividend(self, a)
             /\ self'.last_claimed_dividend[a] = block_timestamp
             /\ Settled(self', a)
             /\ calc_dividend(self', a) = 0
             /\ \A now \in block_timestamp .. MaxTime, ok \in BOOLEAN :
                   claim_dividend(self', a, now, ok).ret = 0]_vars

\* a holder with an unclaimed event has handed all the shares to another
\* account: the whole event was paid in that transfer, and the receiver's
\* watermark is the current time
C8_Witness ==
    /\ last.op = "transfer" /\ last.res = "Ok"
    /\ self.dividends # <<>>
    /\ last.amount = SumAmounts(self.dividends, 1)
    /\ \E a \in last.receiver \ {last.caller} :
          /\ self.balances[a] = self.total_supply
          /\ self.last_claimed_dividend[a] = block_timestamp
          /\ Settled(self, a)

C10_FundingCloses ==
    /\ [](/\ is_funded(self) <=> (self.funding_amount = self.total_supply)
          /\ (self.funding_amount = self.total_supply)
             => \A c \in Callers, v \in Values \ {0} :
                   \A ok1 \in Pays(ZeroAccount), ok2 \in Pays(c) :
                      fund_result(self, c, v, block_timestamp, ok1, ok2).res
                         = "FundingTooMuch")
    /\ [][(self.funding_amount = self.total_supply)
          => /\ is_funded(self')
             /\ self'.funding_amount = self.funding_amount]_vars

\* a fund() with a positive value was refused after the fund was filled,
\* although the reservoir holds shares again
C10_Witness ==
    /\ is_funded(self)
    /\ last.op = "fund" /\ last.res = "FundingTooMuch"
    /\ self.balances[ZeroAccount] > 0

\* the three messages behind the manager gate
Gated == {"issue_dividend", "swap_call", "prediction_market_call"}

\* C11. Manager gate: issue_dividend, swap_call and prediction_market_call
\* fail with OnlyManagerAllowed for a caller that is not the manager (also
\* while the fund is not funded) and with MustBeFunded for the manager while
\* funding_amount # total_supply; in both cases call_runtime is not reached,
\* whatever it would answer, and the storage and the payouts are unchanged.
C11_ManagerGate ==
    /\ [](\A c \in Callers, a \in DividendAmounts, ok \in BOOLEAN :
            LET g == gated_runtime_call(self, c, ok)
                i == issue_dividend_result(self, c, a, block_timestamp, ok)
                gate == IF c # self.manager THEN "OnlyManagerAllowed"
                        ELSE IF self.funding_amount # self.total_supply
                        THEN "MustBeFunded" ELSE "Ok"
            IN gate # "Ok" => /\ g = gate /\ i.res = gate /\ i.s = self
                              /\ runtime_calls(self, c) = 0)
    /\ [][(last'.op \in Gated /\ last'.res \in {"OnlyManagerAllowed", "MustBeFunded"})
          => UNCHANGED <<self, distributed>>]_vars

\* a caller that is not the manager was refused while the fund was not yet
\* funded, and the manager was refused for the funding in the same state
C11_Witness ==
    /\ last.op \in Gated /\ last.res = "OnlyManagerAllowed"
    /\ last.caller # self.manager
    /\ ~is_funded(self) /\ self.funding_amount > 0
    /\ gated_runtime_call(self, self.manager, TRUE) = "MustBeFunded"

\* the distribute calls of a message that the wallet carried out
Paid(calls) == {i \in 1 .. Len(calls) : calls[i].ok}

\* a message result that is an error has left the storage as it was and has
\* paid nothing
NothingDone(r) == r.res # "Ok" => (r.s = self /\ Paid(r.calls) = {})

\* C12 as stated: whenever transfer, transfer_from, fund, claim,
\* issue_dividend, swap_call or prediction_market_call returns an error, the
\* storage is what it was before the call and no payout was distributed,
\* also when the wallet's distribute fails inside claim or inside the
\* settlement of a transfer.
C12_Original ==
    \A c \in Callers :
       /\ \A ok \in Pays(c) : NothingDone(claim_dividend(self, c, block_timestamp, ok))
       /\ \A a \in DividendAmounts, ok \in BOOLEAN :
             LET i == issue_dividend_result(self, c, a, block_timestamp, ok)
             IN i.res # "Ok" => i.s = self
       /\ \A v \in Values :
             /\ \A ok1 \in Pays(ZeroAccount), ok2 \in Pays(c) :
                   NothingDone(fund_result(self, c, v, block_timestamp, ok1, ok2))
             /\ \A to \in Accounts : \A ok1 \in Pays(c), ok2 \in Pays(to) :
                   NothingDone(transfer_from_to(self, c, to, v, block_timestamp, ok1, ok2))
             /\ \A from \in Accounts \ {c}, to \in Accounts :
                   \A ok1 \in Pays(from), ok2 \in Pays(to) :
                      NothingDone(transfer_from_result(self, c, from, to, v, block_timestamp,
                                                       ok1, ok2))

\* C13. transfer_from fails with InsufficientAllowance when the allowance of
\* the caller on `from` is below the value, whatever the balance of `from`
\* and the manager lock; on success exactly that allowance is lowered by
\* the value; on every failure the allowances are unchanged.
C13_TransferFromAllowance ==
    \A c \in Callers, from \in Accounts, to \in Accounts, v \in Values :
       \A ok1 \in Pays(from), ok2 \in Pays(to) :
          LET r == transfer_from_result(self, c, from, to, v, block_timestamp, ok1, ok2)
              allowance == self.allowances[<<from, c>>]
          IN /\ allowance < v => (r.res = "InsufficientAllowance" /\ r.s = self)
             /\ r.res = "Ok" =>
                   r.s.allowances = [self.allowances EXCEPT ![<<from, c>>] = allowance - v]
             /\ r.res # "Ok" => r.s.allowances = self.allowances

\* a pull above the allowance was refused for the allowance, although it was
\* also above the balance of the manager and the manager's shares are locked
C13_Witness ==
    /\ last.op = "transfer_from" /\ last.res = "InsufficientAllowance"
    /\ self.lock_manager_shares
    /\ self.balances[self.manager] = 0
    /\ self.allowances[<<self.manager, last.caller>>] = MaxAllowance

\* C14. transfer fails with InsufficientBalance when the caller's balance is
\* below the value and then changes no balance and no watermark; otherwise,
\* when the caller is not a locked manager and every distribute of the
\* settlement succeeds, it returns Ok, takes the value from the caller's
\* balance and adds it to the balance of `to` (a transfer to oneself leaves
\* the balance as it was); no balance is ever negative.
C14_TransferBalance ==
    /\ \A a \in Accounts : self.balances[a] >= 0
    /\ \A c \in Callers, to \in Accounts, v \in Values :
          \A ok1 \in Pays(c), ok2 \in Pays(to) :
             LET r == transfer_from_to(self, c, to, v, block_timestamp, ok1, ok2)
                 locked == c = self.manager /\ self.lock_manager_shares
             IN /\ self.balances[c] < v => (r.res = "InsufficientBalance" /\ r.s = self)
                /\ (self.balances[c] >= v /\ ~locked /\ Paid(r.calls) = 1 .. Len(r.calls))
                   => /\ r.res = "Ok"
                      /\ r.s.balances =
                            [a \in Accounts |->
                               self.balances[a] - (IF a = c THEN v ELSE 0)
                                                + (IF a = to THEN v ELSE 0)]

\* a holder of one share was refused a transfer of more than it holds
C14_Witness ==
    /\ last.op = "transfer" /\ last.res = "InsufficientBalance"
    /\ self.balances[last.caller] = 1

\* C15. approve always succeeds and sets the allowance of the spender on the
\* caller to the value, whatever it was before; every other allowance,
\* every balance, funding_amount, the dividend history and every watermark
\* stay as they were, and nothing is paid.
C15_ApproveFrame ==
    /\ [](\A c \in Callers, sp \in Accounts, v \in Values :
            LET r == approve_result(self, c, sp, v)
            IN /\ r.res = "Ok"
               /\ r.s.allowances[<<c, sp>>] = v
               /\ \A p \in (Accounts \X Accounts) \ {<<c, sp>>} :
                     r.s.allowances[p] = self.allowances[p]
               /\ r.s = [self EXCEPT !.allowances = r.s.allowances])
    /\ [][IsCall("approve")
          => /\ last'.res = "Ok"
             /\ self' = [self EXCEPT !.allowances = self'.allowances]
             /\ distributed' = distributed]_vars

\* the manager has approved again while an allowance and an unclaimed
\* dividend were standing; the allowance is the value of the last approve
C15_Witness ==
    /\ last.op = "approve" /\ last.res = "Ok"
    /\ \E sp \in Spenders(last.caller) : self.allowances[<<last.caller, sp>>] = MaxAllowance
    /\ self.dividends # <<>>
    /\ \E a \in Callers : calc_dividend(self, a) > 0

\* the manager holds one quarter and `other` three quarters of the supply,
\* and the history is one event whose amount is divisible by 4
Quarters(other) ==
    /\ other # self.manager
    /\ 4 * self.balances[self.manager] = self.total_supply
    /\ 4 * self.balances[other] = 3 * self.total_supply
    /\ Len(self.dividends) = 1
    /\ self.dividends[1].amount % 4 = 0

\* C16 as stated: with the manager holding one quarter and a second account
\* three quarters, one event of amount A (divisible by 4) and no claim made,
\* calc_dividend is A/4 for the manager and 3*A/4 for the other; after a
\* second event of amount B is appended it is (A+B)/4 and 3*(A+B)/4.
C16_Original ==
    \A other \in Callers :
       Quarters(other) =>
          LET A == self.dividends[1].amount
          IN /\ calc_dividend(self, self.manager) = A \div 4
             /\ calc_dividend(self, other) = (3 * A) \div 4
             /\ \A B \in 1 .. MaxAmount :
                   LET i == issue_dividend_result(self, self.manager, B,
                                                  block_timestamp, TRUE).s
                   IN /\ calc_dividend(i, self.manager) = (A + B) \div 4
                      /\ calc_dividend(i, other) = (3 * (A + B)) \div 4

\* floor(sum * user_balance / total_supply), what the stated formula gives
ExactShare(s, a) == (UnclaimedSum(s, a) * s.balances[a]) \div s.total_supply

\* total_supply divides user_balance * buffer: the percentage is not rounded
PercentageExact(s, a) ==
    LET m == LimbBase % s.total_supply
    IN ((s.balances[a] % s.total_supply) * ((m * m) % s.total_supply)) % s.total_supply = 0

RECURSIVE SumDividends(_, _)
\* sum of calc_dividend over the accounts accts
SumDividends(s, accts) ==
    IF accts = {} THEN 0
    ELSE LET a == CHOOSE x \in accts : TRUE
         IN calc_dividend(s, a) + SumDividends(s, accts \ {a})

Holders(s) == {a \in Accounts : s.balances[a] > 0}

\* C18 as stated: right after a successful issue_dividend appended an event
\* of amount A, the sum of calc_dividend over all holders is not more than
\* A and short of A only by rounding dust (less than 2 per holder: one for
\* the rounded percentage, one for the rounded product).
C18_Original ==
    [][(IsCall("issue_dividend") /\ last'.res = "Ok")
          => LET A == self'.dividends[Len(self'.dividends)].amount
                 owed == SumDividends(self', Accounts)
             IN /\ owed <= A
                /\ A - owed < 2 * Cardinality(Holders(self'))]_vars

\* C19: the dividend history is append-only.  A successful
\* issue_dividend(amount) appends exactly the event (block_timestamp, amount)
\* at the end and leaves the earlier events as they were; every other step
\* leaves the history unchanged; issued_at never decreases along the history.
C19_AppendOnly ==
    /\ [](/\ \A i, j \in 1 .. Len(self.dividends) :
                i < j => self.dividends[i].issued_at <= self.dividends[j].issued_at
          /\ \A c \in Callers, a \in DividendAmounts, ok \in BOOLEAN :
                LET r == issue_dividend_result(self, c, a, block_timestamp, ok)
                IN r.res = "Ok"
                   => r.s.dividends = Append(self.dividends,
                                             [issued_at |-> block_timestamp, amount |-> a]))
    /\ [][IF IsCall("issue_dividend") /\ last'.res = "Ok"
          THEN /\ Len(self'.dividends) = Len(self.dividends) + 1
               /\ \A i \in 1 .. Len(self.dividends) : self'.dividends[i] = self.dividends[i]
               /\ self'.dividends[Len(self'.dividends)].issued_at = block_timestamp
          ELSE self'.dividends = self.dividends]_vars

\* a second event was just appended, in a later block than the first
C19_Witness ==
    /\ last.op = "issue_dividend" /\ last.res = "Ok"
    /\ Len(self.dividends) = 2
    /\ self.dividends[1].issued_at < self.dividends[2].issued_at
    /\ self.dividends[2].issued_at = block_timestamp

\* C20: issue_dividend surfaces a forwarding failure.  When the manager of
\* a funded fund calls issue_dividend and call_runtime fails, the result is
\* CallRuntimeFailed and the storage, the history included, is unchanged; a
\* step returning CallRuntimeFailed appends no event, and the history grows
\* only in an issue_dividend step that returned Ok.
C20_ForwardingFailureSurfaced ==
    /\ [](\A c \in Callers, a \in DividendAmounts :
             LET r == issue_dividend_result(self, c, a, block_timestamp, FALSE)
             IN /\ r.s = self
                /\ r.res # "Ok"
                /\ (c = self.manager /\ is_funded(self)) => r.res = "CallRuntimeFailed")
    /\ [][/\ (IsCall("issue_dividend") /\ last'.res = "CallRuntimeFailed")
             => self' = self
          /\ Len(self'.dividends) > Len(self.dividends)
             => (IsCall("issue_dividend") /\ last'.res = "Ok")]_vars

\* the manager's issue_dividend on a funded fund has just failed in
\* call_runtime, after an earlier event had been issued
C20_Witness ==
    /\ last.op = "issue_dividend" /\ last.res = "CallRuntimeFailed"
    /\ last.caller = self.manager /\ is_funded(self)
    /\ Len(self.dividends) = 1

\* C21: the dividend wallet pays out only on its registered fund's
\* instruction.  distribute called by any account other than the registered
\* fund returns false, transfers nothing and changes nothing; currency
\* leaves the wallet only in a distribute of the registered fund; the
\* registered fund is the caller of new() and never changes.
C21_OnlyRegisteredFund ==
    /\ [](/\ \A c \in WalletCallers, dest \in Callers, a \in 1 .. WalletFunds, ok \in BOOLEAN :
                c # self.fund
                => DividendWallet_distribute(self, c, dest, a, ok)
                   = [s |-> self, ret |-> FALSE, transfers |-> <<>>]
          /\ last.op = "new" => self.fund = last.caller)
    /\ [][/\ self'.fund = self.fund
          /\ (IsCall("distribute") /\ last'.caller # self.fund)
             => (last'.res = "false" /\ distributed' = distributed /\ last'.receiver = {})
          /\ distributed' # distributed
             => (IsCall("distribute") /\ last'.caller = self.fund)]_vars

\* after the registered fund had currency paid out, another account's
\* distribute has just been refused
C21_Witness ==
    /\ last.op = "distribute" /\ last.caller # self.fund /\ last.res = "false"
    /\ distributed > 0

\* C22: reentrancy bound.  When claim_dividend(a) calls distribute, the
\* storage already holds a's new watermark, so a claim for a that re-enters
\* during distribute computes 0, returns Ok(0) and makes no distribute
\* call; the same holds during the settlement of to inside a transfer,
\* after from's watermark was written.
C22_ReentrantClaimPaysNothing ==
    \A a \in Accounts :
       calc_dividend(self, a) > 0
       => LET mid == write_watermark(self, a, block_timestamp)
          IN /\ calc_dividend(mid, a) = 0
             /\ \A ok \in BOOLEAN :
                   claim_dividend(mid, a, block_timestamp, ok)
                   = [s |-> mid, res |-> "Ok", ret |-> 0, calls |-> <<>>]
             /\ \A from \in Accounts :
                   LET mid2 == write_watermark(write_watermark(self, from, block_timestamp),
                                               a, block_timestamp)
                   IN \A ok \in BOOLEAN :
                         claim_dividend(mid2, a, block_timestamp, ok).calls = <<>>

\* a claim() has just been paid for two events: the storage is the one a
\* re-entering call reads, the watermark is the current time and the
\* caller's dividend is 0 although the events are in the history
C22_Witness ==
    /\ last.op = "claim" /\ last.res = "Ok" /\ last.amount > 0
    /\ Len(self.dividends) = 2
    /\ self.last_claimed_dividend[last.caller] = block_timestamp
    /\ calc_dividend(self, last.caller) = 0

\* the storage is the one construction with total_shares = T leaves
Constructed(s, T) ==
    /\ s.total_supply = T
    /\ s.balances[ZeroAccount] = T
    /\ \A a \in Accounts \ {ZeroAccount} : s.balances[a] = 0
    /\ \A p \in Accounts \X Accounts : s.allowances[p] = 0
    /\ s.funding_amount = 0
    /\ s.dividends = <<>>
    /\ \A a \in Accounts : s.last_claimed_dividend[a] = 0

\* C23: initial state.  Right after construction with total_shares = T the
\* reservoir account holds T, every other account holds 0, every allowance
\* is 0, funding_amount is 0, the history is empty and every watermark is
\* 0, with the manager and the lock flag as given; no step changes the
\* manager or the lock flag.
C23_InitialState ==
    /\ [](/\ last.op = "new" => Constructed(self, TotalShares)
          /\ \A m \in Callers, T \in 0 .. MaxSupply, lock \in BOOLEAN :
                LET s == no_instantiation(m, T, lock)
                IN Constructed(s, T) /\ s.manager = m /\ s.lock_manager_shares = lock
          /\ self.manager = Manager)
    /\ [][/\ self'.manager = self.manager
          /\ self'.lock_manager_shares = self.lock_manager_shares]_vars

\* a locked fund after funding, an issuance and a paid claim: the manager
\* and the flag are the constructed ones
C23_Witness ==
    /\ last.op = "claim" /\ last.res = "Ok" /\ last.amount > 0
    /\ self.manager = Manager /\ self.lock_manager_shares
    /\ ~Constructed(self, TotalShares)

RECURSIVE SumOver(_, _)
\* the sum of the amounts of the events at the indices idx
SumOver(divs, idx) ==
    IF idx = {} THEN 0
    ELSE LET i == CHOOSE x \in idx : TRUE
         IN divs[i].amount + SumOver(divs, idx \ {i})

\* the reference definition: the events issued after the watermark w
After(divs, w) == {i \in 1 .. Len(divs) : divs[i].issued_at > w}

\* C24: on every history with non-decreasing timestamps, equal timestamps
\* included, and for every watermark w, the sum calc_dividend uses is the
\* sum of the amounts of exactly the events with issued_at > w, calc_dividend
\* of the holder of the whole supply is that sum, and calc_dividend is 0
\* when no event has issued_at > w.
C24_ScanMatchesReference ==
    \A a \in Accounts :
       LET w == self.last_claimed_dividend[a]
           ref == SumOver(self.dividends, After(self.dividends, w))
       IN /\ UnclaimedSum(self, a) = ref
          /\ self.balances[a] = self.total_supply => calc_dividend(self, a) = ref
          /\ After(self.dividends, w) = {} => calc_dividend(self, a) = 0

\* calc_dividend was queried on a history of three events, the first at or
\* before the watermark, the other two after it at one timestamp
C24_Witness ==
    /\ last.op = "calc_dividend" /\ last.caller = Manager
    /\ Len(self.dividends) = 3
    /\ self.dividends[1].issued_at <= self.last_claimed_dividend[Manager]
    /\ self.dividends[2].issued_at > self.last_claimed_dividend[Manager]
    /\ self.dividends[2].issued_at = self.dividends[3].issued_at
    /\ last.amount = self.dividends[2].amount + self.dividends[3].amount

\* C25: zero settlement.  calc_dividend of an account without shares is 0
\* whatever the history; when calc_dividend(a) is 0, claim_dividend(a)
\* returns Ok(0), makes no distribute call (and so reaches no DividendClaimed
\* emission, which follows the call), and changes the storage only by
\* setting a's watermark to the current time.
C25_ZeroSettlement ==
    /\ [](\A a \in Accounts :
             /\ self.balances[a] = 0 => calc_dividend(self, a) = 0
             /\ calc_dividend(self, a) = 0
                => \A ok \in BOOLEAN :
                      claim_dividend(self, a, block_timestamp, ok)
                      = [s |-> [self EXCEPT !.last_claimed_dividend[a] = block_timestamp],
                         res |-> "Ok", ret |-> 0, calls |-> <<>>])
    /\ [][(IsCall("claim") /\ calc_dividend(self, last'.caller) = 0)
          => /\ last'.res = "Ok" /\ last'.amount = 0
             /\ distributed' = distributed
             /\ self' = [self EXCEPT !.last_claimed_dividend[last'.caller] = block_timestamp]]_vars

\* an account without shares has just claimed in a later block than the
\* issuance: nothing was paid and its watermark is the current time
C25_Witness ==
    /\ last.op = "claim" /\ last.res = "Ok" /\ last.amount = 0
    /\ self.balances[last.caller] = 0
    /\ Len(self.dividends) = 1
    /\ self.dividends[1].issued_at < block_timestamp
    /\ self.last_claimed_dividend[last.caller] = block_timestamp

\* a distribute call of the result r returned false
Refused(r) == \E i \in 1 .. Len(r.calls) : ~r.calls[i].ok

\* the result r failed with DividendDistributionError and moved no balance,
\* debited no allowance and did not increase funding_amount
Blocked(r) ==
    /\ r.res = "DividendDistributionError"
    /\ r.s.balances = self.balances
    /\ r.s.allowances = self.allowances
    /\ r.s.funding_amount = self.funding_amount

\* C26: settlement failure blocks share movement.  If distribute returns
\* false while settling from or to inside transfer, transfer_from or fund,
\* the call fails with DividendDistributionError, no balance is moved, no
\* allowance is debited and funding_amount is not increased.
C26_SettlementFailureBlocks ==
    \A c \in Callers, to \in Accounts, v \in Values :
       /\ \A ok1 \in Pays(c), ok2 \in Pays(to) :
             LET r == transfer_from_to(self, c, to, v, block_timestamp, ok1, ok2)
             IN Refused(r) => Blocked(r)
       /\ \A from \in Accounts :
             \A ok1 \in Pays(from), ok2 \in Pays(to) :
                LET r == transfer_from_result(self, c, from, to, v, block_timestamp, ok1, ok2)
                IN Refused(r) => Blocked(r)
       /\ \A ok1 \in Pays(ZeroAccount), ok2 \in Pays(c) :
             LET r == fund_result(self, c, v, block_timestamp, ok1, ok2)
             IN Refused(r) => Blocked(r)

\* a transfer_from within the allowance has just failed in the settlement:
\* the allowance is still whole
C26_Witness ==
    /\ last.op = "transfer_from" /\ last.res = "DividendDistributionError"
    /\ \E o \in Owners(last.caller) : self.allowances[<<o, last.caller>>] = MaxAllowance

RECURSIVE SentTo(_, _)
\* the total the distribute calls `calls` sent to account a
SentTo(calls, a) ==
    IF calls = <<>> THEN 0
    ELSE (IF Head(calls).dest = a /\ Head(calls).ok THEN Head(calls).amount ELSE 0)
         + SentTo(Tail(calls), a)

\* a successful move r to `to` has paid to's pending dividend to `to` and
\* set its watermark to the current time
RecipientSettled(r, to) ==
    r.res = "Ok" =>
       /\ SentTo(r.calls, to) = calc_dividend(self, to)
       /\ r.s.last_claimed_dividend[to] = block_timestamp

\* C27: forced settlement of the recipient.  A successful transfer or
\* transfer_from of any value, 0 included, by any caller to any account to
\* has the wallet pay to's pending dividend, computed on to's balance before
\* the move, to to itself, and sets to's watermark to the current time.
C27_RecipientSettled ==
    \A c \in Callers, to \in Accounts, v \in Values :
       /\ RecipientSettled(transfer_from_to(self, c, to, v, block_timestamp, TRUE, TRUE), to)
       /\ \A from \in Accounts :
             RecipientSettled(transfer_from_result(self, c, from, to, v, block_timestamp,
                                                   TRUE, TRUE), to)

\* a caller without shares has just transferred 0 to another account, and
\* the wallet paid that account its dividend
C27_Witness ==
    /\ last.op = "transfer" /\ last.res = "Ok" /\ last.amount > 0
    /\ last.receiver = {}
    /\ self.balances[last.caller] = 0
    /\ \E to \in Callers \ {last.caller} :
          /\ self.balances[to] > 0
          /\ self.last_claimed_dividend[to] = block_timestamp

\* C28: with lock_manager_shares true the manager's share balance never
\* decreases, in any step of any caller (transfer, transfer_from with any
\* allowance, fund, claim, issue_dividend, the runtime calls).
C28_LockedBalanceNeverDecreases ==
    [][self.lock_manager_shares
          => self'.balances[self.manager] >= self.balances[self.manager]]_vars

\* on a locked fund a spender holding the manager's allowance has just been
\* refused a transfer_from of the manager's shares
C28_Witness ==
    /\ self.lock_manager_shares
    /\ last.op = "transfer_from" /\ last.res = "ManagerSharesAreLocked"
    /\ last.caller # self.manager
    /\ self.allowances[<<self.manager, last.caller>>] > 0
    /\ self.balances[self.manager] > 0

\* the move r credited the manager with v shares
ManagerReceives(r, v) ==
    r.res = "Ok" /\ r.s.balances[self.manager] = self.balances[self.manager] + v

\* C29: the manager lock restricts only outbound movement.  On a locked
\* fund, when the wallet pays, fund() by the manager within the ceiling
\* succeeds and credits the manager, a transfer or an allowed transfer_from
\* out of another account to the manager within that account's balance
\* succeeds and credits the manager, and the manager's claim() returns Ok
\* and has the wallet pay the manager its calc_dividend.
C29_LockOnlyOutbound ==
    self.lock_manager_shares =>
       /\ \A v \in Values :
             v + self.funding_amount <= self.total_supply
             => ManagerReceives(fund_result(self, self.manager, v, block_timestamp, TRUE, TRUE), v)
       /\ \A from \in Callers \ {self.manager}, v \in Values :
             self.balances[from] >= v
             => /\ ManagerReceives(transfer_from_to(self, from, self.manager, v,
                                                    block_timestamp, TRUE, TRUE), v)
                /\ \A c \in Callers :
                      allowance_impl(self, from, c) >= v
                      => ManagerReceives(transfer_from_result(self, c, from, self.manager, v,
                                                              block_timestamp, TRUE, TRUE), v)
       /\ LET r == claim_dividend(self, self.manager, block_timestamp, TRUE)
          IN /\ r.res = "Ok" /\ r.ret = calc_dividend(self, self.manager)
             /\ SentTo(r.calls, self.manager) = calc_dividend(self, self.manager)

\* on a locked fund another holder has just transferred a share to the
\* manager, who now holds the whole supply
C29_Witness ==
    /\ self.lock_manager_shares
    /\ last.op = "transfer" /\ last.res = "Ok"
    /\ last.caller # self.manager /\ last.receiver = {self.manager}
    /\ self.balances[self.manager] = TotalShares

\* C30: swap_call and prediction_market_call never change the fund's
\* storage, whether the runtime call succeeds, fails or is not reached, and
\* nothing is distributed; a failing runtime call never gives Ok and, for
\* the manager of a funded fund, gives CallRuntimeFailed.
C30_RuntimeCallsFrame ==
    /\ [](\A c \in Callers :
             /\ gated_runtime_call(self, c, FALSE) # "Ok"
             /\ (c = self.manager /\ is_funded(self))
                => gated_runtime_call(self, c, FALSE) = "CallRuntimeFailed")
    /\ [][(IsCall("swap_call") \/ IsCall("prediction_market_call"))
          => (self' = self /\ distributed' = distributed)]_vars

\* with a dividend in the history, a prediction_market_call of the manager
\* has just failed in the runtime
C30_Witness ==
    /\ last.op = "prediction_market_call" /\ last.res = "CallRuntimeFailed"
    /\ last.caller = self.manager /\ is_funded(self)
    /\ Len(self.dividends) = 1

\* the result r of a message that settles only the accounts in `settled`
\* leaves every other watermark as it was and moves none of them anywhere
\* but to the current time
OnlySettles(r, settled) ==
    \A a \in Accounts :
       /\ a \notin settled => r.s.last_claimed_dividend[a] = self.last_claimed_dividend[a]
       /\ r.s.last_claimed_dividend[a] \in {self.last_claimed_dividend[a], block_timestamp}

\* C31: each account's watermark never decreases and never exceeds the
\* current block time; transfer, transfer_from and fund change the watermark
\* of their source and destination only, claim() of its caller only, and no
\* other step changes any; claim() by a changes nothing but a's watermark.
C31_WatermarkFrame ==
    /\ [](/\ \A a \in Accounts : self.last_claimed_dividend[a] <= block_timestamp
          /\ \A c \in Callers, to \in Accounts, v \in Values :
                /\ \A ok1 \in Pays(c), ok2 \in Pays(to) :
                      OnlySettles(transfer_from_to(self, c, to, v, block_timestamp, ok1, ok2),
                                  {c, to})
                /\ \A from \in Accounts : \A ok1 \in Pays(from), ok2 \in Pays(to) :
                      OnlySettles(transfer_from_result(self, c, from, to, v, block_timestamp,
                                                       ok1, ok2), {from, to})
                /\ \A ok1 \in Pays(ZeroAccount), ok2 \in Pays(c) :
                      OnlySettles(fund_result(self, c, v, block_timestamp, ok1, ok2),
                                  {ZeroAccount, c})
                /\ \A ok \in Pays(c) :
                      claim_dividend(self, c, block_timestamp, ok).s
                      = [self EXCEPT !.last_claimed_dividend[c] = block_timestamp])
    /\ [][/\ \A a \in Accounts :
                self'.last_claimed_dividend[a] >= self.last_claimed_dividend[a]
          /\ IsCall("claim")
             => self' = [self EXCEPT !.last_claimed_dividend[last'.caller] = block_timestamp]
          /\ self'.last_claimed_dividend # self.last_claimed_dividend
             => (IsCall("claim") \/ IsCall("transfer") \/ IsCall("transfer_from")
                 \/ IsCall("fund"))]_vars

\* a claim() has just moved its caller's watermark to the current time
\* while another account, settled in an earlier block, kept its own
C31_Witness ==
    /\ last.op = "claim" /\ last.res = "Ok"
    /\ self.last_claimed_dividend[last.caller] = block_timestamp
    /\ \E a \in Callers \ {last.caller} :
          /\ self.last_claimed_dividend[a] > 0
          /\ self.last_claimed_dividend[a] < block_timestamp

\* C32: dividends exist only in funded state.  A non-empty dividend history
\* implies funding_amount = total_supply, funding_amount never decreases,
\* and once the history is non-empty no fund() mints: a successful fund()
\* then moves no share and leaves funding_amount as it is.
C32_DividendsOnlyWhenFunded ==
    /\ [](Len(self.dividends) > 0 => self.funding_amount = self.total_supply)
    /\ [][/\ self'.funding_amount >= self.funding_amount
          /\ (IsCall("fund") /\ Len(self.dividends) > 0)
             => /\ self'.balances = self.balances
                /\ self'.funding_amount = self.funding_amount
                /\ last'.receiver = {}]_vars

\* with a dividend in the history a fund() with a positive value has just
\* been refused
C32_Witness ==
    /\ Len(self.dividends) > 0
    /\ last.op = "fund" /\ last.res = "FundingTooMuch"
    /\ is_funded(self)

\* the reservoir holds at least the shares not yet funded
ReservoirCovers(s) == s.balances[ZeroAccount] >= s.total_supply - s.funding_amount

\* C33: with the reservoir (all-zero) account never calling and never
\* approving, the reservoir balance is at least total_supply -
\* funding_amount in every reachable state, no transfer_from out of the
\* reservoir by any caller breaks that, and a fund() that passes the ceiling
\* check never fails with InsufficientBalance.
C33_ReservoirCovers ==
    /\ ReservoirCovers(self)
    /\ \A p \in Accounts \X Accounts : p[1] = ZeroAccount => self.allowances[p] = 0
    /\ \A c \in Callers, v \in Values :
          /\ v + self.funding_amount <= self.total_supply
             => \A ok1 \in Pays(ZeroAccount), ok2 \in Pays(c) :
                   fund_result(self, c, v, block_timestamp, ok1, ok2).res
                   # "InsufficientBalance"
          /\ \A to \in Accounts :
                ReservoirCovers(transfer_from_result(self, c, ZeroAccount, to, v,
                                                     block_timestamp, TRUE, TRUE).s)

\* a fund() has just minted from a reservoir that holds more than the
\* unfunded shares, a holder having transferred a share back to it
C33_Witness ==
    /\ last.op = "fund" /\ last.res = "Ok" /\ last.receiver # {}
    /\ self.balances[ZeroAccount] > self.total_supply - self.funding_amount

\* the result r of a move from account a to itself, when it succeeded, left
\* every balance as it was and settled a
SelfMoveNeutral(r, a) ==
    r.res = "Ok" =>
       /\ r.s.balances = self.balances
       /\ r.s.last_claimed_dividend[a] = block_timestamp
       /\ SentTo(r.calls, a) = calc_dividend(self, a)
       /\ calc_dividend(r.s, a) = 0

\* C34: self-transfer is balance-neutral.  A successful transfer or
\* transfer_from with from = to and any value leaves every balance
\* unchanged while the account's dividend is paid and its watermark set; a
\* transfer to oneself within the balance succeeds when the account is not
\* the locked manager and the wallet pays.
C34_SelfTransferNeutral ==
    \A c \in Callers, v \in Values :
       /\ \A ok1 \in Pays(c), ok2 \in BOOLEAN :
             SelfMoveNeutral(transfer_from_to(self, c, c, v, block_timestamp, ok1, ok2), c)
       /\ \A a \in Accounts : \A ok1 \in Pays(a), ok2 \in BOOLEAN :
             SelfMoveNeutral(transfer_from_result(self, c, a, a, v, block_timestamp, ok1, ok2), a)
       /\ ( /\ v <= self.balances[c]
            /\ ~(c = self.manager /\ self.lock_manager_shares) )
          => transfer_from_to(self, c, c, v, block_timestamp, TRUE, TRUE).res = "Ok"

\* a holder has just transferred a positive value to itself and was paid
\* its dividend on the way
C34_Witness ==
    /\ last.op = "transfer" /\ last.res = "Ok"
    /\ last.receiver = {last.caller}
    /\ last.amount > 0
    /\ self.balances[last.caller] > 0

\* C35 as stated: on a fully funded fund, fund() with zero value succeeds,
\* leaves funding_amount and every balance unchanged and settles the
\* caller's pending dividend.
C35_Original ==
    is_funded(self) =>
       \A c \in Callers : \A ok1 \in Pays(ZeroAccount), ok2 \in Pays(c) :
          LET r == fund_result(self, c, 0, block_timestamp, ok1, ok2)
          IN /\ r.res = "Ok"
             /\ r.s.funding_amount = self.funding_amount
             /\ r.s.balances = self.balances
             /\ r.s.last_claimed_dividend[c] = block_timestamp

\* C35, amended.  On a fully funded fund, fund() with zero value never
\* fails with FundingTooMuch and leaves funding_amount and every balance
\* unchanged.  It settles the reservoir and then the caller: it returns Ok,
\* with the caller's calc_dividend paid to the caller and the caller's
\* watermark at the current time, unless the wallet refuses one of the two
\* payments, and then it returns DividendDistributionError.
C35_ZeroFundSettles ==
    is_funded(self) =>
       \A c \in Callers : \A ok1 \in Pays(ZeroAccount), ok2 \in Pays(c) :
          LET r == fund_result(self, c, 0, block_timestamp, ok1, ok2)
          IN /\ r.res # "FundingTooMuch"
             /\ r.s.funding_amount = self.funding_amount
             /\ r.s.balances = self.balances
             /\ r.res = (IF Refused(r) THEN "DividendDistributionError" ELSE "Ok")
             /\ Refused(r) <=> (~ok1 \/ ~ok2)
             /\ r.res = "Ok" => /\ SentTo(r.calls, c) = calc_dividend(self, c)
                                /\ r.s.last_claimed_dividend[c] = block_timestamp
                                /\ calc_dividend(r.s, c) = 0

\* on a funded fund a fund() with zero value has just succeeded and paid
\* its caller a dividend
C35_Witness ==
    /\ is_funded(self)
    /\ last.op = "fund" /\ last.res = "Ok"
    /\ last.receiver = {} /\ last.amount > 0
    /\ self.last_claimed_dividend[last.caller] = block_timestamp

====
